---- MODULE Spec2Model ----
(***************************************************************************)
(* Model of ClusterBatchAnalyzer                                           *)
(* (src/scripts/cluster/clusterbatchanalyzer.py): the batch orchestrator   *)
(* analyze_clusters with its thread pool, the per-file worker              *)
(* process_pdb_file, the coordination counter, the ionic-sphere volume     *)
(* estimator, the charge aggregator, the statistics aggregator and the     *)
(* volume-percentage computation of plot_volume_percentage_of_scatterers.  *)
(*                                                                         *)
(* Conventions.                                                            *)
(*  - Python's None is the empty tuple; a number, string, list or dict     *)
(*    that may be None is boxed, Some(v) = <<v>>.  A file path is the      *)
(*    tuple <<directory, name>>.                                           *)
(*  - An operation that may raise yields [exc |-> <type name>] when it     *)
(*    raises and [val |-> v] when it returns v.                            *)
(*  - Lengths are whole angstroms; mendeleev's radii are picometres.       *)
(*    A sphere volume (4/3)*pi*r^3 is kept as the integer r^3, i.e. in     *)
(*    units of (4/3)*pi cubic angstroms.                                   *)
(*  - A quotient a/b of floats is kept as the pair <<a, b>>; b = 0 is the  *)
(*    float NaN (0.0/0.0).  A standard deviation is kept as its square.    *)
(***************************************************************************)
EXTENDS Integers, Sequences, FiniteSets, Bags, TLC

None == << >>

Some(v) == <<v>>

Exc(type) == [exc |-> type]

Val(v) == [val |-> v]

IsExc(r) == "exc" \in DOMAIN r

(* ---------------------------- bounds ------------------------------------ *)

\* largest number of .pdb files in the directory
MaxFiles == 2

\* largest number of analyze_clusters calls on one analyzer
MaxRuns == 2

\* largest number of tasks one analyzer submits over all its calls
MaxTasks == 4

\* largest number of atoms of a generated cluster (core and shell together)
MaxAtoms == 3

\* largest value os.cpu_count() reports
MaxCpu == 3

(* ------------------------- small helpers -------------------------------- *)

Put(f, k, v) == [x \in (DOMAIN f) \cup {k} |-> IF x = k THEN v ELSE f[x]]

Max2(a, b) == IF a >= b THEN a ELSE b

RECURSIVE SumSeq(_)
SumSeq(s) == IF s = <<>> THEN 0 ELSE Head(s) + SumSeq(Tail(s))

RECURSIVE SumFnOver(_, _)
SumFnOver(f, S) ==
  IF S = {} THEN 0
  ELSE LET x == CHOOSE y \in S : TRUE IN f[x] + SumFnOver(f, S \ {x})

\* the sum of the values of a function with a finite domain
SumFn(f) == SumFnOver(f, DOMAIN f)

RECURSIVE SeqToBag(_)
SeqToBag(s) == IF s = <<>> THEN EmptyBag ELSE SetToBag({Head(s)}) (+) SeqToBag(Tail(s))

SetMin(S) == CHOOSE x \in S : \A y \in S : x <= y

\* sorted(keys): the ascending list of a finite set of integers
RECURSIVE Sorted(_)
Sorted(S) == IF S = {} THEN <<>> ELSE <<SetMin(S)>> \o Sorted(S \ {SetMin(S)})

\* np.mean(values) of a non-empty list, as the quotient <<sum, len>>
Mean(values) == <<SumSeq(values), Len(values)>>

(* ------------------- the element property library ----------------------- *)

Elements == {"Pb", "I", "O", "Zz"}

\* mendeleev.element(symbol): the tabulated ionic radii (charge, coordination
\* label, radius in pm) and the covalent radius in pm.  "Zz" stands for an
\* element whose covalent radius the library gives as 0.
ElementData ==
  [e \in Elements |->
     CASE e = "Pb" -> [ionic_radii |-> << [charge |-> 2, coordination |-> "VI", ionic_radius |-> 200],
                                          [charge |-> 4, coordination |-> "VI", ionic_radius |-> 100] >>,
                       covalent_radius |-> 100]
       [] e = "I"  -> [ionic_radii |-> << [charge |-> -1, coordination |-> "VI", ionic_radius |-> 300] >>,
                       covalent_radius |-> 100]
       [] e = "O"  -> [ionic_radii |-> << [charge |-> -2, coordination |-> "II", ionic_radius |-> 100] >>,
                       covalent_radius |-> 100]
       [] e = "Zz" -> [ionic_radii |-> << >>, covalent_radius |-> 0] ]

PmPerAngstrom == 100

\* roman_numerals.get(n, None); the None of an unlisted number is the empty
\* string (like None it is falsy, and no numeral is empty)
to_roman(n) ==
  CASE n = 1 -> "I" [] n = 2 -> "II" [] n = 3 -> "III" [] n = 4 -> "IV" [] n = 5 -> "V"
    [] n = 6 -> "VI" [] n = 7 -> "VII" [] n = 8 -> "VIII" [] n = 9 -> "IX" [] n = 10 -> "X"
    [] n = 11 -> "XI" [] n = 12 -> "XII" [] n = 13 -> "XIII" [] n = 14 -> "XIV" [] n = 15 -> "XV"
    [] OTHER -> ""

\* volume = (4/3) * np.pi * (radius ** 3), in units of (4/3)*pi
SphereVolume(radius) == radius * radius * radius

\* next((ir for ir in elem.ionic_radii if ir.charge == charge and
\*       ir.coordination == roman_coordination), None)
RECURSIVE MatchingRadius(_, _, _)
MatchingRadius(radii, charge, roman) ==
  IF radii = <<>> THEN None
  ELSE IF Head(radii).charge = charge /\ Head(radii).coordination = roman
       THEN Head(radii)
       ELSE MatchingRadius(Tail(radii), charge, roman)

\* the entry build_ionic_radius_lookup stores for one row of self.charges;
\* None when the row is skipped (invalid coordination number)
LookupEntry(atom_type, charge, coordination) ==
  LET roman == to_roman(coordination)
      elem  == ElementData[atom_type]
      m     == MatchingRadius(elem.ionic_radii, charge, roman)
  IN IF roman = "" THEN None
     ELSE IF m # None
          THEN [ionic_radius |-> Some(m.ionic_radius \div PmPerAngstrom),
                volume |-> Some(SphereVolume(m.ionic_radius \div PmPerAngstrom))]
          ELSE IF elem.covalent_radius \div PmPerAngstrom # 0
               THEN [ionic_radius |-> Some(elem.covalent_radius \div PmPerAngstrom),
                     volume |-> Some(SphereVolume(elem.covalent_radius \div PmPerAngstrom))]
               ELSE [ionic_radius |-> None, volume |-> None]

\* build_ionic_radius_lookup: keys are (element, charge)
build_ionic_radius_lookup(charges) ==
  LET kept == {e \in DOMAIN charges : LookupEntry(e, charges[e][1], charges[e][2]) # None}
      keys == {<<e, charges[e][1]>> : e \in kept}
  IN [k \in keys |-> LookupEntry(k[1], charges[k[1]][1], charges[k[1]][2])]

(* ------------------------------ state ----------------------------------- *)

VARIABLES
  disk,                       \* what PDBFileHandler makes of each file of the directory
  cfg,                        \* the constructor's arguments kept in self
  pdb_files,                  \* self.pdb_files
  radius_lookup,              \* self.radius_lookup
  cluster_data,               \* self.cluster_data
  cluster_size_distribution,  \* self.cluster_size_distribution
  average_volumes_per_size,   \* self.average_volumes_per_size (boxed; None until set)
  no_target_atoms_files,      \* self.no_target_atoms_files
  runs,                       \* number of analyze_clusters calls started
  main_pc,                    \* where the caller's thread is
  cpu_count,                  \* what os.cpu_count() returns (0 for None)
  shape_type,                 \* the shape_type the caller passes to analyze_clusters
  num_threads,                \* analyze_clusters' local (0 outside a call)
  all_cluster_sizes,          \* analyze_clusters' local
  coordination_stats_per_size,\* analyze_clusters' local
  no_target_atoms_count,      \* analyze_clusters' local
  submitted,                  \* number of files submitted by line 148
  task,                       \* state of each file's future
  outcome,                    \* what each finished task left in its future
  error_log,                  \* the "Error processing file ..." lines printed
  reported,                   \* the count printed by line 172 (None until printed)
  copied,                     \* the files copied by lines 168-170
  mode_size,                  \* plot_volume_percentage_of_scatterers' mode (boxed)
  raised,                     \* the exception that left analyze_clusters (None if none)
  estimate                    \* the last direct call of a volume estimator (None if none)

vars == << disk, cpu_count, cfg, pdb_files, radius_lookup, cluster_data, cluster_size_distribution,
           average_volumes_per_size, no_target_atoms_files, runs, main_pc, shape_type,
           num_threads, all_cluster_sizes, coordination_stats_per_size,
           no_target_atoms_count, submitted, task, outcome, error_log, reported, copied,
           mode_size, raised, estimate >>

(* --------------------------- the structure loader ----------------------- *)

\* PDBFileHandler(pdb_file, core_residue_names, shell_residue_names): the parsed
\* structure [core_atoms, shell_atoms], or the exception the loader raises
PDBFileHandler(pdb_file) == disk[pdb_file]

AllAtoms(pdb_handler) == pdb_handler.core_atoms \o pdb_handler.shell_atoms

\* self.charges.get(element, (0, 0))
ChargesGet(element) ==
  IF element \in DOMAIN cfg.charges THEN cfg.charges[element] ELSE <<0, 0>>

(* --------------------------- coordination counter ----------------------- *)

Square(x) == x * x

\* np.linalg.norm(c1 - c2) <= threshold, compared on the squares
are_connected(atom1, atom2, threshold) ==
  LET c1 == atom1.coordinates
      c2 == atom2.coordinates
  IN /\ threshold >= 0
     /\ Square(c1[1] - c2[1]) + Square(c1[2] - c2[2]) + Square(c1[3] - c2[3])
          <= Square(threshold)

\* the pair of atoms reaches are_connected (lines 242-245)
ReachesDistance(atom, other_atom) ==
  /\ other_atom.element \in cfg.neighbor_elements
  /\ <<atom.element, other_atom.element>> \in DOMAIN cfg.distance_thresholds

\* the inner loop of lines 241-246 for one target atom
RECURSIVE CountLoop(_, _, _)
CountLoop(atom, others, counts) ==
  IF others = <<>> THEN counts
  ELSE LET other_atom == Head(others)
           pair == <<atom.element, other_atom.element>>
       IN CountLoop(atom, Tail(others),
            IF /\ ReachesDistance(atom, other_atom)
               /\ are_connected(atom, other_atom, cfg.distance_thresholds[pair])
            THEN [counts EXCEPT ![other_atom.element] = @ + 1]
            ELSE counts)

\* the outer loop of lines 239-250: coordination_numbers[(element, neighbor)]
RECURSIVE CoordinationLoop(_, _, _)
CoordinationLoop(target_atoms, all_atoms, coordination_numbers) ==
  IF target_atoms = <<>> THEN coordination_numbers
  ELSE LET atom == Head(target_atoms)
           counts == CountLoop(atom, all_atoms, [n \in cfg.neighbor_elements |-> 0])
           pairs == {<<atom.element, n>> : n \in cfg.neighbor_elements}
           old(p) == IF p \in DOMAIN coordination_numbers
                     THEN coordination_numbers[p] ELSE <<>>
       IN CoordinationLoop(Tail(target_atoms), all_atoms,
            [p \in (DOMAIN coordination_numbers) \cup pairs |->
               IF p \in pairs THEN Append(old(p), counts[p[2]])
               ELSE coordination_numbers[p]])

RECURSIVE SumSquares(_)
SumSquares(s) == IF s = <<>> THEN 0 ELSE Square(Head(s)) + SumSquares(Tail(s))

\* np.std(counts), kept as its square (the population variance)
StdSquared(counts) ==
  << Len(counts) * SumSquares(counts) - Square(SumSeq(counts)), Square(Len(counts)) >>

\* np.array(None) - np.array(...) raises TypeError inside are_connected
CoordinationRaises(pdb_handler, target_atoms) ==
  \E i \in 1..Len(target_atoms), j \in 1..Len(AllAtoms(pdb_handler)) :
     /\ ReachesDistance(target_atoms[i], AllAtoms(pdb_handler)[j])
     /\ \/ target_atoms[i].coordinates = None
        \/ AllAtoms(pdb_handler)[j].coordinates = None

\* a counter that also uses the threshold of the reverse-ordered pair
calculate_coordination_numbers_symmetric(pdb_handler, target_atoms) ==
  LET all_atoms == AllAtoms(pdb_handler)
      thresholds == cfg.distance_thresholds
      reverse(pair) == <<pair[2], pair[1]>>
      has(pair) == pair \in DOMAIN thresholds \/ reverse(pair) \in DOMAIN thresholds
      threshold(pair) == IF pair \in DOMAIN thresholds THEN thresholds[pair]
                         ELSE thresholds[reverse(pair)]
      count(atom, neighbor) ==
        Cardinality({j \in 1..Len(all_atoms) :
                       /\ all_atoms[j].element = neighbor
                       /\ has(<<atom.element, neighbor>>)
                       /\ are_connected(atom, all_atoms[j], threshold(<<atom.element, neighbor>>))})
      pairs == {<<target_atoms[k].element, n>> :
                  k \in 1..Len(target_atoms), n \in cfg.neighbor_elements}
      counts(pair) ==
        LET atoms == SelectSeq(target_atoms, LAMBDA a : a.element = pair[1])
        IN [k \in 1..Len(atoms) |-> count(atoms[k], pair[2])]
  IN Val([pair \in pairs |-> << Mean(counts(pair)), StdSquared(counts(pair)) >>])

\* statistics that leave out the pairs whose counts are all zero
calculate_coordination_numbers_sparse(pdb_handler, target_atoms) ==
  IF CoordinationRaises(pdb_handler, target_atoms) THEN Exc("TypeError")
  ELSE LET coordination_numbers ==
             CoordinationLoop(target_atoms, AllAtoms(pdb_handler), << >>)
           counted == {pair \in DOMAIN coordination_numbers :
                         SumSeq(coordination_numbers[pair]) > 0}
       IN Val([pair \in counted |->
                 << Mean(coordination_numbers[pair]),
                    StdSquared(coordination_numbers[pair]) >>])

calculate_coordination_numbers(pdb_handler, target_atoms) ==
  IF CoordinationRaises(pdb_handler, target_atoms) THEN Exc("TypeError")
  ELSE LET coordination_numbers ==
             CoordinationLoop(target_atoms, AllAtoms(pdb_handler), << >>)
       IN Val([pair \in DOMAIN coordination_numbers |->
                 << Mean(coordination_numbers[pair]),
                    StdSquared(coordination_numbers[pair]) >>])

(* --------------------------- charge aggregator -------------------------- *)

RECURSIVE ChargeLoop(_, _)
ChargeLoop(atoms, total_charge) ==
  IF atoms = <<>> THEN total_charge
  ELSE ChargeLoop(Tail(atoms), total_charge + ChargesGet(Head(atoms).element)[1])

\* a sum that forgets the shell atoms
calculate_cluster_charge_core_only(pdb_handler) ==
  ChargeLoop(pdb_handler.core_atoms, 0)

calculate_cluster_charge(pdb_handler) ==
  ChargeLoop(pdb_handler.shell_atoms, ChargeLoop(pdb_handler.core_atoms, 0))

(* ------------------------ ionic-sphere estimator ------------------------ *)

\* lines 456-458: element_counts[(element, charge)] += 1
RECURSIVE ElementCounts(_, _)
ElementCounts(atoms, element_counts) ==
  IF atoms = <<>> THEN element_counts
  ELSE LET key == <<Head(atoms).element, ChargesGet(Head(atoms).element)[1]>>
       IN ElementCounts(Tail(atoms),
            Put(element_counts, key,
                IF key \in DOMAIN element_counts THEN element_counts[key] + 1 ELSE 1))

\* a group that adds its sphere once, however many atoms it has
WeightedVolume_once(key, count) ==
  IF key \in DOMAIN radius_lookup
  THEN IF radius_lookup[key].volume # None THEN radius_lookup[key].volume[1] ELSE 0
  ELSE 0

\* lines 467-475 for one key: what the key adds to total_volume
WeightedVolume(key, count) ==
  IF key \in DOMAIN radius_lookup
  THEN IF radius_lookup[key].volume # None
       THEN count * radius_lookup[key].volume[1]
       ELSE 0
  ELSE 0

RECURSIVE SumWeighted(_, _)
SumWeighted(element_counts, keys) ==
  IF keys = {} THEN 0
  ELSE LET key == CHOOSE k \in keys : TRUE
       IN WeightedVolume(key, element_counts[key]) + SumWeighted(element_counts, keys \ {key})

\* an estimator that groups the core atoms only
estimate_total_molecular_volume_core_only(pdb_handler) ==
  LET element_counts == ElementCounts(pdb_handler.core_atoms, << >>)
  IN SumWeighted(element_counts, DOMAIN element_counts)

estimate_total_molecular_volume(pdb_handler) ==
  LET element_counts == ElementCounts(AllAtoms(pdb_handler), << >>)
  IN SumWeighted(element_counts, DOMAIN element_counts)

(* ------------------------- convex-hull estimator ------------------------ *)

\* a volume an estimator returns: a number, or the volume scipy's ConvexHull
\* finds for a set of points, which is kept as the points themselves
Number(n) == [number |-> n]

HullVolume(points) == [hull |-> points]

\* the determinant of the three edge vectors from point a to points b, c, d
Det3(a, b, c, d) ==
  LET u == <<b[1] - a[1], b[2] - a[2], b[3] - a[3]>>
      v == <<c[1] - a[1], c[2] - a[2], c[3] - a[3]>>
      w == <<d[1] - a[1], d[2] - a[2], d[3] - a[3]>>
  IN u[1] * (v[2] * w[3] - v[3] * w[2]) - u[2] * (v[1] * w[3] - v[3] * w[1])
       + u[3] * (v[1] * w[2] - v[2] * w[1])

\* all the points lie in one plane: Qhull finds no initial simplex
Coplanar(points) ==
  \A a, b, c, d \in 1..Len(points) : Det3(points[a], points[b], points[c], points[d]) = 0

\* hull = ConvexHull(points); hull.volume
ConvexHull(points) ==
  IF \E k \in 1..Len(points) : points[k] = None THEN Exc("ValueError")
  ELSE IF Coplanar(points) THEN Exc("QhullError")
  ELSE Val(HullVolume(points))

\* a threshold of three points
calculate_cluster_volume_three(pdb_handler) ==
  LET all_atoms == AllAtoms(pdb_handler)
  IN IF Len(all_atoms) < 3
     THEN [result |-> Val(Number(0)),
           printed |-> Some("Not enough atoms to calculate Convex Hull. Returning 0 volume.")]
     ELSE [result |-> ConvexHull([k \in 1..Len(all_atoms) |-> all_atoms[k].coordinates]),
           printed |-> None]

\* lines 483-491: the value returned or the exception raised, and the line printed
calculate_cluster_volume(pdb_handler) ==
  LET all_atoms == AllAtoms(pdb_handler)
  IN IF Len(all_atoms) < 4
     THEN [result |-> Val(Number(0)),
           printed |-> Some("Not enough atoms to calculate Convex Hull. Returning 0 volume.")]
     ELSE [result |-> ConvexHull([k \in 1..Len(all_atoms) |-> all_atoms[k].coordinates]),
           printed |-> None]

(* -------------------- outward-facing-point estimator -------------------- *)

\* the oxidation_states table of lines 586-595
oxidation_states ==
  [e \in {"Pb", "I", "S", "O", "H", "C", "N"} |->
     CASE e = "Pb" -> 2 [] e = "I" -> -1 [] e = "S" -> -2 [] e = "O" -> -2
       [] e = "H" -> 1 [] e = "C" -> 4 [] e = "N" -> -3]

\* lines 604-606: the first tabulated radius of the charge, None if there is none
RECURSIVE FirstRadiusOfCharge(_, _)
FirstRadiusOfCharge(radii, charge) ==
  IF radii = <<>> THEN None
  ELSE IF Head(radii).charge = charge THEN Some(Head(radii).ionic_radius)
       ELSE FirstRadiusOfCharge(Tail(radii), charge)

\* an element outside the table gets its covalent radius
fetch_ionic_radius_default(element_symbol) ==
  IF element_symbol \notin DOMAIN oxidation_states
  THEN Val(ElementData[element_symbol].covalent_radius)
  ELSE LET r == FirstRadiusOfCharge(ElementData[element_symbol].ionic_radii,
                                    oxidation_states[element_symbol])
       IN IF r = None THEN Exc("ValueError") ELSE Val(r[1])

\* lines 579-608
fetch_ionic_radius(element_symbol) ==
  IF element_symbol \notin DOMAIN oxidation_states
  THEN Exc("ValueError")          \* Unknown or unsupported element
  ELSE LET r == FirstRadiusOfCharge(ElementData[element_symbol].ionic_radii,
                                    oxidation_states[element_symbol])
       IN IF r = None THEN Exc("ValueError")   \* No ionic radius found
          ELSE Val(r[1])

\* the position is the geometric center np.mean(centers, axis=0)
AtCenter(position, centers) ==
  \A axis \in 1..3 :
     Len(centers) * position[axis] = SumSeq([k \in 1..Len(centers) |-> centers[k][axis]])

\* lines 632-641.  np.vstack of an empty list raises; an atom at the geometric
\* center has a NaN direction, keeps no vertex, and the sum of its position and
\* the empty array raises; otherwise the volume is that of the hull of the
\* outward-facing points, kept as the centers and radii that determine them
estimate_connected_volume_with_outward_facing_points(centers, radii) ==
  IF Len(centers) = 0 THEN Exc("ValueError")
  ELSE IF \E k \in 1..Len(centers) : AtCenter(centers[k], centers) THEN Exc("ValueError")
  ELSE Val(HullVolume(<<centers, radii>>))

\* lines 643-647
calculate_voronoi_volume(atoms) ==
  LET radii == [k \in 1..Len(atoms) |-> fetch_ionic_radius(atoms[k].element)]
  IN IF \E k \in 1..Len(atoms) : IsExc(radii[k])
     THEN radii[CHOOSE k \in 1..Len(atoms) :
                  IsExc(radii[k]) /\ \A j \in 1..(k - 1) : ~IsExc(radii[j])]
     ELSE estimate_connected_volume_with_outward_facing_points(
            [k \in 1..Len(atoms) |-> atoms[k].coordinates],
            [k \in 1..Len(atoms) |-> radii[k].val])

(* ----------------------------- per-file worker -------------------------- *)

EmptyResult == <<None, None, None, None, None>>

\* lines 119-137: the volume by the configured method
ClusterVolume(pdb_handler, target_atoms) ==
  IF cfg.volume_method = "ionic_radius"
  THEN Val(estimate_total_molecular_volume(pdb_handler))
  ELSE IF cfg.volume_method = "radius_of_gyration"
       THEN IF \E i \in 1..Len(target_atoms) :
                  target_atoms[i].element \notin DOMAIN cfg.charges
            THEN Exc("KeyError")      \* self.charges[atom.element] of line 122
            ELSE Exc("NameError")     \* RadiusOfGyrationCalculator is not defined
       ELSE Exc("ValueError")         \* Unknown volume method

\* a selection that also looks at the shell atoms
TargetAtoms_all(pdb_handler) ==
  SelectSeq(AllAtoms(pdb_handler), LAMBDA atom : atom.element \in cfg.target_elements)

\* line 107: the core atoms of a target element
TargetAtoms(pdb_handler) ==
  SelectSeq(pdb_handler.core_atoms, LAMBDA atom : atom.element \in cfg.target_elements)

\* an except clause that prints nothing
ExceptResult_silent(pdb_file, e) ==
  [result |-> EmptyResult, no_target |-> FALSE, error |-> None, raises |-> None]

\* a worker without the except clause: the exception stays in the future
ExceptResult_reraise(pdb_file, e) ==
  [result |-> EmptyResult, no_target |-> FALSE, error |-> None, raises |-> Some(e)]

\* an except clause that also lists the file as unmatched
ExceptResult_unmatched(pdb_file, e) ==
  [result |-> EmptyResult, no_target |-> TRUE, error |-> Some(<<pdb_file, e>>),
   raises |-> None]

\* lines 143-145: the except clause of the worker
ExceptResult(pdb_file, e) ==
  [result |-> EmptyResult, no_target |-> FALSE, error |-> Some(<<pdb_file, e>>),
   raises |-> None]

\* lines 102-145.  result: the tuple returned; no_target: the file was appended
\* to self.no_target_atoms_files; error: the line printed by the except clause;
\* raises: the exception that leaves the worker
process_pdb_file(pdb_file) ==
  LET loaded == PDBFileHandler(pdb_file)
  IN IF IsExc(loaded) THEN ExceptResult(pdb_file, loaded.exc)
     ELSE
       LET pdb_handler == loaded.val
           target_atoms == TargetAtoms(pdb_handler)
       IN IF target_atoms = <<>>
          THEN [result |-> EmptyResult, no_target |-> TRUE, error |-> None, raises |-> None]
          ELSE
            LET stats == calculate_coordination_numbers(pdb_handler, target_atoms)
                volume == ClusterVolume(pdb_handler, target_atoms)
            IN IF IsExc(stats) THEN ExceptResult(pdb_file, stats.exc)
               ELSE IF IsExc(volume) THEN ExceptResult(pdb_file, volume.exc)
               ELSE [result |-> << pdb_file, Len(target_atoms), stats.val, volume.val,
                                   calculate_cluster_charge(pdb_handler) >>,
                     no_target |-> FALSE, error |-> None, raises |-> None]

(* --------------------------- statistics aggregator ---------------------- *)

\* lines 212-216: cluster_size_distribution[cluster_size].append(cluster_volume)
RECURSIVE BucketLoop(_, _)
BucketLoop(data, distribution) ==
  IF data = <<>> THEN distribution
  ELSE LET size == Head(data).cluster_size
           old == IF size \in DOMAIN distribution THEN distribution[size] ELSE <<>>
       IN BucketLoop(Tail(data), Put(distribution, size, Append(old, Head(data).volume)))

\* buckets that keep only the first volume seen for a size
StatisticsBuckets_first_wins(data) ==
  LET sizes == {data[k].cluster_size : k \in 1..Len(data)}
      first(size) == CHOOSE k \in 1..Len(data) :
                        /\ data[k].cluster_size = size
                        /\ \A j \in 1..(k - 1) : data[j].cluster_size # size
  IN [size \in sizes |-> << data[first(size)].volume >>]

\* the cluster_size_distribution generate_statistics builds from self.cluster_data
StatisticsBuckets(data) == BucketLoop(data, << >>)

\* lines 218-220
AverageVolumes(distribution) == [size \in DOMAIN distribution |-> Mean(distribution[size])]

\* avg_volume * len(volumes), with avg_volume = np.mean(volumes)
MeanTimesCount(volumes) == (Mean(volumes)[1] * Len(volumes)) \div Mean(volumes)[2]

\* lines 842-845
RECURSIVE TotalClusterVolume(_, _)
TotalClusterVolume(distribution, sizes) ==
  IF sizes = {} THEN 0
  ELSE LET size == CHOOSE x \in sizes : TRUE
       IN MeanTimesCount(distribution[size]) + TotalClusterVolume(distribution, sizes \ {size})

PercentFactor == 100

\* lines 851-857 for one size: the percentage as a quotient (NaN when the total is 0)
VolumePercentage(distribution, size) ==
  IF Len(distribution[size]) > 0
  THEN << MeanTimesCount(distribution[size]) * PercentFactor,
          TotalClusterVolume(distribution, DOMAIN distribution) >>
  ELSE << 0, 1 >>

\* volume_percentages of lines 848-857, in the order of sorted(sizes)
VolumePercentages(distribution) ==
  LET sizes == Sorted(DOMAIN distribution)
  IN [i \in 1..Len(sizes) |-> VolumePercentage(distribution, sizes[i])]

\* the comparison turned round (an argmin)
QuotientGreater_reversed(a, b) == a[1] * b[2] < b[1] * a[2]

\* a > b for two quotients with denominators >= 0; never true of a NaN
QuotientGreater(a, b) == a[1] * b[2] > b[1] * a[2]

\* a quotient with denominator 0: the NaN of 0.0 / 0.0
IsNaN(a) == a[2] = 0

\* np.argmax (1-based here).  An empty list raises; the first NaN wins; else
\* the first index holding the largest float wins, which is one index for given
\* doubles.  The percentages are kept here as exact quotients, not as doubles:
\* quotients that differ exactly differ by more than the rounding, so the
\* largest exact quotient, when it is alone, is the largest double.  Of several
\* exactly equal largest quotients the doubles may differ in the last place
\* either way, following the order of the sums of lines 842-845 and 853, so the
\* index returned is one of them and is not fixed further here: the operator
\* is the set of the indexes that holds the one the code returns.
ArgMax(values) ==
  IF Len(values) = 0 THEN {Exc("ValueError")}
  ELSE IF \E i \in 1..Len(values) : IsNaN(values[i])
  THEN {Val(CHOOSE i \in 1..Len(values) :
              IsNaN(values[i]) /\ \A j \in 1..(i - 1) : ~IsNaN(values[j]))}
  ELSE {Val(i) : i \in {k \in 1..Len(values) :
                          \A j \in 1..Len(values) : ~QuotientGreater(values[j], values[k])}}

\* line 867: int(percentage * 100) raises ValueError for a NaN
WeightRaises(values) == \E i \in 1..Len(values) : IsNaN(values[i])

\* lines 841-904: the outcomes the call can have, each the mode size of line
\* 861 of a call that returns, or the exception raised by np.argmax (line 860)
\* or by int (line 867)
plot_volume_percentage_of_scatterers(distribution) ==
  LET sizes == Sorted(DOMAIN distribution)
      volume_percentages == VolumePercentages(distribution)
  IN {IF IsExc(mode_index) THEN mode_index
      ELSE IF WeightRaises(volume_percentages) THEN Exc("ValueError")
      ELSE Val(sizes[mode_index.val]) : mode_index \in ArgMax(volume_percentages)}

\* lines 711-721: the dicts the call can leave behind.  Line 721 reads
\* coordination_stats_per_size[size][next(iter(pairs))] for every size: the
\* inner defaultdict inserts an empty list where the size lacks that pair, and
\* which pair a set yields first is up to the hashes of the run
plot_coordination_histogram(per_size) ==
  LET sizes == DOMAIN per_size
      pairs == UNION {DOMAIN per_size[size] : size \in sizes}
  IN IF sizes = {} THEN {per_size}
     ELSE {[size \in sizes |->
              IF pair \in DOMAIN per_size[size] THEN per_size[size]
              ELSE Put(per_size[size], pair, << >>)] : pair \in pairs}

(* ------------------------------- thread count --------------------------- *)

\* a pool with one thread per core
determine_safe_thread_count_all_cores(cpus) ==
  LET num_cores == IF cpus = 0 THEN 1 ELSE cpus
  IN Max2(1, num_cores)

\* lines 76-80 with task_type = 'cpu'; cpu_count = 0 stands for os.cpu_count() = None
determine_safe_thread_count(cpus) ==
  LET num_cores == IF cpus = 0 THEN 1 ELSE cpus
  IN Max2(1, num_cores - 1)

(* ------------------------------ initial state --------------------------- *)

Atom(element, x) == [element |-> element, coordinates |-> <<x, 0, 0>>]

BadAtom(element) == [element |-> element, coordinates |-> None]

Cluster(core, shell) == Val([core_atoms |-> core, shell_atoms |-> shell])

\* the structures the batch runs draw their files from
Catalogue ==
  { Exc("OSError"),
    Cluster(<<Atom("Pb", 0)>>, <<Atom("I", 1)>>),
    Cluster(<<Atom("Pb", 0), Atom("Pb", 2)>>, <<Atom("I", 1)>>),
    Cluster(<<Atom("I", 0)>>, <<Atom("Pb", 1)>>),
    Cluster(<<Atom("O", 0)>>, << >>),
    Cluster(<<Atom("Pb", 0)>>, <<BadAtom("I")>>) }

VolumeMethods == {"ionic_radius", "radius_of_gyration", "convex_hull"}

BaseCharges == [e \in {"Pb", "I", "Zz"} |->
                  CASE e = "Pb" -> <<2, 6>> [] e = "I" -> <<-1, 6>> [] e = "Zz" -> <<1, 6>>]

\* the constructor's arguments
Config(method, copy) ==
  [target_elements |-> {"Pb", "O"},
   neighbor_elements |-> {"I", "O"},
   distance_thresholds |-> [p \in {<<"Pb", "I">>} |-> 1],
   charges |-> BaseCharges,
   volume_method |-> method,
   copy_no_target_files |-> copy]

\* the constructor's arguments together with the shape_type of the calls
Setups ==
  { <<Config("ionic_radius", FALSE), "sphere">>,
    <<Config("ionic_radius", TRUE), "cube">>,
    <<Config("radius_of_gyration", FALSE), "ellipsoid">>,
    <<Config("convex_hull", FALSE), "sphere">> }

Path(i) == <<"pdb", i>>

\* __init__ (lines 19-38) on a directory of n files
InitWith(n, d, c, shape, cpus) ==
  /\ disk = d
  /\ cpu_count = cpus
  /\ cfg = c
  /\ pdb_files = [i \in 1..n |-> Path(i)]
  /\ radius_lookup = IF c.volume_method = "ionic_radius"
                     THEN build_ionic_radius_lookup(c.charges) ELSE << >>
  /\ cluster_data = << >>
  /\ cluster_size_distribution = << >>
  /\ average_volumes_per_size = None
  /\ no_target_atoms_files = << >>
  /\ runs = 0
  /\ main_pc = "idle"
  /\ shape_type = shape
  /\ num_threads = 0
  /\ all_cluster_sizes = << >>
  /\ coordination_stats_per_size = << >>
  /\ no_target_atoms_count = 0
  /\ submitted = 0
  /\ task = [i \in 1..n |-> "new"]
  /\ outcome = [i \in 1..n |-> None]
  /\ error_log = {}
  /\ reported = None
  /\ copied = << >>
  /\ mode_size = None
  /\ raised = None
  /\ estimate = None

Init ==
  \E n \in 0..MaxFiles :
    \E d \in [{Path(i) : i \in 1..n} -> Catalogue] :
      \E s \in Setups, cpus \in 0..MaxCpu : InitWith(n, d, s[1], s[2], cpus)

\* one file holding any cluster of at most MaxAtoms atoms, under any of the
\* charge tables: the inputs of the charge aggregator
PlacedAtoms == {Atom(e, 0) : e \in Elements}

AtomLists == UNION {[1..k -> PlacedAtoms] : k \in 0..MaxAtoms}

ChargeTables ==
  { BaseCharges,
    [e \in {"Pb", "O"} |-> IF e = "Pb" THEN <<4, 6>> ELSE <<-2, 2>>],
    << >> }

InitCharge ==
  \E core \in AtomLists, shell \in AtomLists, table \in ChargeTables :
     /\ Len(core) + Len(shell) <= MaxAtoms
     /\ InitWith(1, [p \in {Path(1)} |-> Cluster(core, shell)],
                 [Config("ionic_radius", FALSE) EXCEPT !.charges = table], "sphere", 1)

\* batches of clusters of several sizes and volumes: the inputs of the
\* statistics aggregator
StatsCatalogue ==
  { Cluster(<<Atom("Pb", 0)>>, << >>),
    Cluster(<<Atom("Pb", 0)>>, <<Atom("I", 1)>>),
    Cluster(<<Atom("Pb", 0), Atom("Pb", 2)>>, << >>),
    Cluster(<<Atom("Pb", 0), Atom("Pb", 2), Atom("Pb", 4)>>, <<Atom("I", 1)>>),
    Cluster(<<Atom("O", 0)>>, << >>) }

\* four files of which two fill the bucket of size 1 with the volume the one
\* file of size 3 has: the batch whose shares tie
OrderBatch ==
  << Cluster(<<Atom("Pb", 0)>>, <<Atom("I", 1)>>),
     Cluster(<<Atom("Pb", 0), Atom("Pb", 2)>>, << >>),
     Cluster(<<Atom("Pb", 0), Atom("Pb", 2), Atom("Pb", 4)>>, <<Atom("I", 1)>>),
     Cluster(<<Atom("Pb", 0)>>, <<Atom("Pb", 2)>>) >>

InitOrder ==
  InitWith(Len(OrderBatch), [p \in {Path(i) : i \in 1..Len(OrderBatch)} |-> OrderBatch[p[2]]],
           Config("ionic_radius", FALSE), "sphere", MaxCpu)

InitStats ==
  \E n \in 1..MaxFiles :
    \E d \in [{Path(i) : i \in 1..n} -> StatsCatalogue] :
      InitWith(n, d, Config("ionic_radius", FALSE), "sphere", MaxCpu)

\* one file holding one target atom at the origin and neighbour atoms on a
\* line at known distances, under several threshold tables: the inputs of the
\* coordination counter
NeighbourAtoms == {Atom(e, x) : e \in {"I", "Pb"}, x \in 0..2}

NeighbourLists == UNION {[1..k -> NeighbourAtoms] : k \in 0..(MaxAtoms - 1)}

ThresholdTables ==
  { [p \in {<<"Pb", "I">>} |-> 1],
    [p \in {<<"Pb", "I">>, <<"Pb", "Pb">>} |-> IF p[2] = "I" THEN 1 ELSE 2],
    [p \in {<<"Pb", "I">>, <<"I", "Pb">>} |-> IF p[2] = "I" THEN 0 ELSE 2],
    [p \in {<<"I", "Pb">>} |-> 2] }

InitCoordination ==
  \E shell \in NeighbourLists, thresholds \in ThresholdTables :
     InitWith(1, [p \in {Path(1)} |-> Cluster(<<Atom("Pb", 0)>>, shell)],
              [Config("ionic_radius", FALSE) EXCEPT !.target_elements = {"Pb"},
                                                    !.neighbor_elements = {"I", "Pb"},
                                                    !.distance_thresholds = thresholds],
              "sphere", 1)

\* two files, the second holding every atom of the first twice: the inputs of
\* the ionic-sphere estimator
InitAdditive ==
  \E core \in AtomLists, shell \in AtomLists, table \in ChargeTables :
     /\ Len(core) + Len(shell) <= MaxAtoms
     /\ InitWith(2, [p \in {Path(1), Path(2)} |->
                       IF p = Path(1) THEN Cluster(core, shell)
                       ELSE Cluster(core \o core, shell \o shell)],
                 [Config("ionic_radius", FALSE) EXCEPT !.charges = table], "sphere", 1)

AtomAt(element, c) == [element |-> element, coordinates |-> c]

\* clusters with positions that span space, on a line, and with an element
\* outside the oxidation-state table
HullCatalogue ==
  { Cluster(<<AtomAt("Pb", <<0, 0, 0>>)>>,
            <<AtomAt("I", <<1, 0, 0>>), AtomAt("I", <<0, 1, 0>>), AtomAt("I", <<0, 0, 1>>)>>),
    Cluster(<<AtomAt("Pb", <<0, 0, 0>>)>>,
            <<AtomAt("I", <<1, 0, 0>>), AtomAt("I", <<2, 0, 0>>), AtomAt("O", <<3, 0, 0>>)>>),
    Cluster(<<AtomAt("Pb", <<0, 0, 0>>)>>,
            <<AtomAt("Zz", <<1, 0, 0>>), AtomAt("I", <<0, 1, 0>>), AtomAt("I", <<0, 0, 1>>)>>),
    Cluster(<<AtomAt("Pb", <<0, 0, 0>>)>>, <<AtomAt("Zz", <<1, 0, 0>>)>>),
    Cluster(<<AtomAt("Pb", <<0, 0, 0>>)>>, <<AtomAt("I", <<1, 0, 0>>)>>),
    Cluster(<<AtomAt("Pb", <<0, 0, 0>>)>>,
            <<AtomAt("I", <<1, 0, 0>>), AtomAt("O", <<0, 1, 0>>)>>) }

\* one file holding a generated cluster of at most MaxAtoms atoms or a cluster
\* of the catalogue: the inputs of the estimators that are called directly
InitEstimators ==
  \/ \E core \in AtomLists, shell \in AtomLists :
        /\ Len(core) + Len(shell) <= MaxAtoms
        /\ InitWith(1, [p \in {Path(1)} |-> Cluster(core, shell)],
                    Config("ionic_radius", FALSE), "sphere", 1)
  \/ \E h \in HullCatalogue :
        InitWith(1, [p \in {Path(1)} |-> h], Config("ionic_radius", FALSE), "sphere", 1)

\* charge tables with rows of several charges and reference coordination
\* numbers, 16 being one that has no Roman label: the inputs of the
\* radius-lookup builder
ChargeRows == {<<charge, coordination>> : charge \in {2, -2}, coordination \in {2, 6, 16}}

RowTables == UNION {[S -> ChargeRows] : S \in SUBSET {"Pb", "O", "Zz"}}

InitLookup ==
  \E table \in RowTables :
     InitWith(1, [p \in {Path(1)} |-> Cluster(<<Atom("Pb", 0)>>, <<Atom("O", 1)>>)],
              [Config("ionic_radius", FALSE) EXCEPT !.charges = table], "sphere", 1)

(* -------------------------------- actions ------------------------------- *)

Files == 1..Len(pdb_files)

Running == {i \in Files : task[i] = "running"}

\* lines 92-100: a call of analyze_clusters starts
Begin ==
  /\ main_pc \in {"idle", "returned", "raised"}
  /\ runs < MaxRuns
  /\ (runs + 1) * Len(pdb_files) <= MaxTasks
  /\ \A i \in Files : task[i] \notin {"queued", "running"}
  /\ num_threads' = determine_safe_thread_count(cpu_count)
  /\ runs' = runs + 1
  /\ all_cluster_sizes' = << >>
  /\ coordination_stats_per_size' = << >>
  /\ no_target_atoms_count' = 0
  /\ submitted' = 0
  /\ task' = [i \in Files |-> "new"]
  /\ outcome' = [i \in Files |-> None]
  /\ error_log' = {}
  /\ reported' = None
  /\ mode_size' = None
  /\ raised' = None
  /\ main_pc' = IF Len(pdb_files) = 0 THEN "collect" ELSE "submit"
  /\ UNCHANGED << disk, cpu_count, cfg, pdb_files, radius_lookup, cluster_data,
                  cluster_size_distribution, average_volumes_per_size,
                  no_target_atoms_files, shape_type, copied >>
  /\ UNCHANGED estimate

\* line 148: executor.submit of the next file
Submit ==
  /\ main_pc = "submit"
  /\ submitted < Len(pdb_files)
  /\ submitted' = submitted + 1
  /\ task' = [task EXCEPT ![submitted + 1] = "queued"]
  /\ main_pc' = IF submitted + 1 = Len(pdb_files) THEN "collect" ELSE "submit"
  /\ UNCHANGED << disk, cpu_count, cfg, pdb_files, radius_lookup, cluster_data,
                  cluster_size_distribution, average_volumes_per_size,
                  no_target_atoms_files, runs, shape_type, num_threads, all_cluster_sizes,
                  coordination_stats_per_size, no_target_atoms_count, outcome, error_log,
                  reported, copied, mode_size, raised >>
  /\ UNCHANGED estimate

\* a pool thread takes the oldest queued task
WorkerStart(i) ==
  /\ task[i] = "queued"
  /\ \A j \in Files : j < i => task[j] # "queued"
  /\ Cardinality(Running) < num_threads
  /\ task' = [task EXCEPT ![i] = "running"]
  /\ UNCHANGED << disk, cpu_count, cfg, pdb_files, radius_lookup, cluster_data,
                  cluster_size_distribution, average_volumes_per_size,
                  no_target_atoms_files, runs, main_pc, shape_type, num_threads,
                  all_cluster_sizes, coordination_stats_per_size, no_target_atoms_count,
                  submitted, outcome, error_log, reported, copied, mode_size, raised >>
  /\ UNCHANGED estimate

\* a worker that caches an empty entry for every group it finds missing
WorkerRun_caching(i) ==
  /\ task[i] = "running"
  /\ outcome[i] = None
  /\ LET o == process_pdb_file(pdb_files[i])
         atoms == IF IsExc(PDBFileHandler(pdb_files[i])) THEN << >>
                  ELSE AllAtoms(PDBFileHandler(pdb_files[i]).val)
         keys == {<<atoms[k].element, ChargesGet(atoms[k].element)[1]>> : k \in 1..Len(atoms)}
     IN /\ outcome' = [outcome EXCEPT ![i] = o]
        /\ no_target_atoms_files' = IF o.no_target
                                    THEN Append(no_target_atoms_files, pdb_files[i])
                                    ELSE no_target_atoms_files
        /\ error_log' = IF o.error # None THEN error_log \cup {o.error[1]} ELSE error_log
        /\ radius_lookup' = [key \in (DOMAIN radius_lookup) \cup keys |->
                               IF key \in DOMAIN radius_lookup THEN radius_lookup[key]
                               ELSE [ionic_radius |-> None, volume |-> None]]
  /\ UNCHANGED << disk, cpu_count, cfg, pdb_files, cluster_data, task,
                  cluster_size_distribution, average_volumes_per_size, runs, main_pc,
                  shape_type, num_threads, all_cluster_sizes, coordination_stats_per_size,
                  no_target_atoms_count, submitted, reported, copied, mode_size, raised,
                  estimate >>

\* lines 102-145: process_pdb_file runs on a pool thread up to its return
\* statement: the append of line 110 or the print of line 144 is made and the
\* tuple to return is known, while the future is still running
WorkerRun(i) ==
  /\ task[i] = "running"
  /\ outcome[i] = None
  /\ LET o == process_pdb_file(pdb_files[i])
     IN /\ outcome' = [outcome EXCEPT ![i] = o]
        /\ no_target_atoms_files' = IF o.no_target
                                    THEN Append(no_target_atoms_files, pdb_files[i])
                                    ELSE no_target_atoms_files
        /\ error_log' = IF o.error # None THEN error_log \cup {o.error[1]} ELSE error_log
  /\ UNCHANGED << disk, cpu_count, cfg, pdb_files, radius_lookup, cluster_data, task,
                  cluster_size_distribution, average_volumes_per_size, runs, main_pc,
                  shape_type, num_threads, all_cluster_sizes, coordination_stats_per_size,
                  no_target_atoms_count, submitted, reported, copied, mode_size, raised >>
  /\ UNCHANGED estimate

\* process_pdb_file returns (lines 111, 141, 145) and the pool thread sets the
\* result of the future, which as_completed can then yield
WorkerReturn(i) ==
  /\ task[i] = "running"
  /\ outcome[i] # None
  /\ task' = [task EXCEPT ![i] = "done"]
  /\ UNCHANGED << disk, cpu_count, cfg, pdb_files, radius_lookup, cluster_data,
                  cluster_size_distribution, average_volumes_per_size,
                  no_target_atoms_files, runs, main_pc, shape_type, num_threads,
                  all_cluster_sizes, coordination_stats_per_size, no_target_atoms_count,
                  submitted, outcome, error_log, reported, copied, mode_size, raised >>
  /\ UNCHANGED estimate

\* lines 154-155
StatsPerSizeAppend(per_size, cluster_size, coordination_stats) ==
  IF DOMAIN coordination_stats = {} THEN per_size
  ELSE LET old == IF cluster_size \in DOMAIN per_size THEN per_size[cluster_size] ELSE << >>
           oldp(pair) == IF pair \in DOMAIN old THEN old[pair] ELSE << >>
       IN Put(per_size, cluster_size,
              [pair \in (DOMAIN old) \cup (DOMAIN coordination_stats) |->
                 IF pair \in DOMAIN coordination_stats
                 THEN Append(oldp(pair), coordination_stats[pair][1])
                 ELSE old[pair]])

\* an append that starts the bucket anew
BucketAppend_overwrite(distribution, cluster_size, cluster_volume) ==
  Put(distribution, cluster_size, << cluster_volume >>)

\* line 164
BucketAppend(distribution, cluster_size, cluster_volume) ==
  Put(distribution, cluster_size,
      Append(IF cluster_size \in DOMAIN distribution THEN distribution[cluster_size] ELSE << >>,
             cluster_volume))

\* lines 149-166: as_completed yields a finished future and its result is handled
Collect(i) ==
  /\ main_pc = "collect"
  /\ task[i] = "done"
  /\ task' = [task EXCEPT ![i] = "collected"]
  /\ LET result == outcome[i].result
     IN IF outcome[i].raises # None
        THEN \* future.result() re-raises the worker's exception
             /\ main_pc' = "raised"
             /\ raised' = outcome[i].raises
             /\ UNCHANGED << all_cluster_sizes, coordination_stats_per_size, cluster_data,
                             cluster_size_distribution, no_target_atoms_count >>
        ELSE IF result[1] # None
        THEN /\ all_cluster_sizes' = Append(all_cluster_sizes, result[2])
             /\ coordination_stats_per_size' =
                  StatsPerSizeAppend(coordination_stats_per_size, result[2], result[3])
             /\ cluster_data' = Append(cluster_data,
                  [pdb_file |-> result[1], cluster_size |-> result[2],
                   coordination_stats |-> result[3], volume |-> result[4],
                   charge |-> result[5]])
             /\ cluster_size_distribution' =
                  BucketAppend(cluster_size_distribution, result[2], result[4])
             /\ UNCHANGED << no_target_atoms_count, main_pc, raised >>
        ELSE /\ no_target_atoms_count' = no_target_atoms_count + 1
             /\ UNCHANGED << all_cluster_sizes, coordination_stats_per_size, cluster_data,
                             cluster_size_distribution, main_pc, raised >>
  /\ UNCHANGED << disk, cpu_count, cfg, pdb_files, radius_lookup, average_volumes_per_size,
                  no_target_atoms_files, runs, shape_type, num_threads, submitted, outcome,
                  error_log, reported, copied, mode_size >>
  /\ UNCHANGED estimate

\* a pool that is left as soon as every file is submitted
PoolJoin_early ==
  /\ main_pc = "collect"
  /\ main_pc' = "copy"
  /\ UNCHANGED << disk, cpu_count, cfg, pdb_files, radius_lookup, cluster_data,
                  cluster_size_distribution, average_volumes_per_size,
                  no_target_atoms_files, runs, shape_type, num_threads, all_cluster_sizes,
                  coordination_stats_per_size, no_target_atoms_count, submitted, task,
                  outcome, error_log, reported, copied, mode_size, raised, estimate >>

\* the with-block of line 147 is left once every future has been handled
PoolJoin ==
  /\ main_pc = "collect"
  /\ \A i \in Files : task[i] = "collected"
  /\ main_pc' = "copy"
  /\ UNCHANGED << disk, cpu_count, cfg, pdb_files, radius_lookup, cluster_data,
                  cluster_size_distribution, average_volumes_per_size,
                  no_target_atoms_files, runs, shape_type, num_threads, all_cluster_sizes,
                  coordination_stats_per_size, no_target_atoms_count, submitted, task,
                  outcome, error_log, reported, copied, mode_size, raised >>
  /\ UNCHANGED estimate

\* lines 168-170
CopyUnmatched ==
  /\ main_pc = "copy"
  /\ copied' = IF cfg.copy_no_target_files THEN copied \o no_target_atoms_files ELSE copied
  /\ main_pc' = "print"
  /\ UNCHANGED << disk, cpu_count, cfg, pdb_files, radius_lookup, cluster_data,
                  cluster_size_distribution, average_volumes_per_size,
                  no_target_atoms_files, runs, shape_type, num_threads, all_cluster_sizes,
                  coordination_stats_per_size, no_target_atoms_count, submitted, task,
                  outcome, error_log, reported, mode_size, raised >>
  /\ UNCHANGED estimate

\* line 172
PrintCount ==
  /\ main_pc = "print"
  /\ reported' = Some(no_target_atoms_count)
  /\ main_pc' = "statistics"
  /\ UNCHANGED << disk, cpu_count, cfg, pdb_files, radius_lookup, cluster_data,
                  cluster_size_distribution, average_volumes_per_size,
                  no_target_atoms_files, runs, shape_type, num_threads, all_cluster_sizes,
                  coordination_stats_per_size, no_target_atoms_count, submitted, task,
                  outcome, error_log, copied, mode_size, raised >>
  /\ UNCHANGED estimate

\* lines 206-223: the effect of generate_statistics on self
generate_statistics ==
  /\ cluster_size_distribution' = StatisticsBuckets(cluster_data)
  /\ average_volumes_per_size' = Some(AverageVolumes(StatisticsBuckets(cluster_data)))

\* line 174
Statistics ==
  /\ main_pc = "statistics"
  /\ generate_statistics
  /\ main_pc' = "plots"
  /\ UNCHANGED << disk, cpu_count, cfg, pdb_files, radius_lookup, cluster_data,
                  no_target_atoms_files, runs, shape_type, num_threads, all_cluster_sizes,
                  coordination_stats_per_size, no_target_atoms_count, submitted, task,
                  outcome, error_log, reported, copied, mode_size, raised >>
  /\ UNCHANGED estimate

\* lines 176-185: the plots, then the return.  plot_cluster_size_distribution,
\* plot_average_volume_vs_cluster_size(_rg) and plot_phi_Vc_vs_cluster_size
\* (which runs only after line 182 returned, with a total above 0) change
\* nothing and do not raise.
Plots ==
  /\ main_pc = "plots"
  /\ coordination_stats_per_size' \in plot_coordination_histogram(coordination_stats_per_size)
  /\ \E mode \in plot_volume_percentage_of_scatterers(cluster_size_distribution) :
        IF IsExc(mode)
        THEN /\ main_pc' = "raised"
             /\ raised' = Some(mode.exc)
             /\ UNCHANGED mode_size
        ELSE /\ main_pc' = "returned"
             /\ mode_size' = Some(mode.val)
             /\ UNCHANGED raised
  /\ UNCHANGED << disk, cpu_count, cfg, pdb_files, radius_lookup, cluster_data,
                  cluster_size_distribution, average_volumes_per_size,
                  no_target_atoms_files, runs, shape_type, num_threads, all_cluster_sizes,
                  no_target_atoms_count, submitted, task,
                  outcome, error_log, reported, copied >>
  /\ UNCHANGED estimate

\* the caller calls plot_coordination_histogram on the dict a run returned
CallPlotCoordinationHistogram ==
  /\ main_pc = "returned"
  /\ coordination_stats_per_size' \in plot_coordination_histogram(coordination_stats_per_size)
  /\ UNCHANGED << disk, cpu_count, cfg, pdb_files, radius_lookup, cluster_data,
                  cluster_size_distribution, average_volumes_per_size,
                  no_target_atoms_files, runs, main_pc, shape_type, num_threads,
                  all_cluster_sizes, no_target_atoms_count, submitted, task, outcome,
                  error_log, reported, copied, mode_size, raised >>
  /\ UNCHANGED estimate

\* the caller calls generate_statistics between two batch runs
CallGenerateStatistics ==
  /\ main_pc \in {"idle", "returned", "raised"}
  /\ \A i \in Files : task[i] \notin {"queued", "running"}
  /\ generate_statistics
  /\ UNCHANGED << disk, cpu_count, cfg, pdb_files, radius_lookup, cluster_data,
                  no_target_atoms_files, runs, main_pc, shape_type, num_threads,
                  all_cluster_sizes, coordination_stats_per_size, no_target_atoms_count,
                  submitted, task, outcome, error_log, reported, copied, mode_size,
                  raised >>
  /\ UNCHANGED estimate

\* everything but the record of the direct estimator calls
batch_vars == << disk, cpu_count, cfg, pdb_files, radius_lookup, cluster_data,
                 cluster_size_distribution, average_volumes_per_size, no_target_atoms_files,
                 runs, main_pc, shape_type, num_threads, all_cluster_sizes,
                 coordination_stats_per_size, no_target_atoms_count, submitted, task, outcome,
                 error_log, reported, copied, mode_size, raised >>

\* the caller loads a file and calls calculate_cluster_volume on the handler
CallCalculateClusterVolume(i) ==
  /\ main_pc \in {"idle", "returned", "raised"}
  /\ ~IsExc(PDBFileHandler(pdb_files[i]))
  /\ LET r == calculate_cluster_volume(PDBFileHandler(pdb_files[i]).val)
     IN estimate' = [method |-> "convex_hull", pdb_file |-> pdb_files[i],
                     result |-> r.result, printed |-> r.printed]
  /\ UNCHANGED batch_vars

\* the caller loads a file and calls calculate_voronoi_volume on all its atoms
CallCalculateVoronoiVolume(i) ==
  /\ main_pc \in {"idle", "returned", "raised"}
  /\ ~IsExc(PDBFileHandler(pdb_files[i]))
  /\ estimate' = [method |-> "outward_facing_points", pdb_file |-> pdb_files[i],
                  result |-> calculate_voronoi_volume(AllAtoms(PDBFileHandler(pdb_files[i]).val)),
                  printed |-> None]
  /\ UNCHANGED batch_vars

\* the direct calls of the estimators analyze_clusters does not use
NextEstimators ==
  \/ \E i \in Files : CallCalculateClusterVolume(i)
  \/ \E i \in Files : CallCalculateVoronoiVolume(i)

Next ==
  \/ Begin
  \/ Submit
  \/ \E i \in Files : WorkerStart(i)
  \/ \E i \in Files : WorkerRun(i)
  \/ \E i \in Files : WorkerReturn(i)
  \/ \E i \in Files : Collect(i)
  \/ PoolJoin
  \/ CopyUnmatched
  \/ PrintCount
  \/ Statistics
  \/ Plots
  \/ CallGenerateStatistics
  \/ CallPlotCoordinationHistogram

Spec == Init /\ [][Next]_vars

SpecCharge == InitCharge /\ [][Next]_vars

SpecStats == InitStats /\ [][Next]_vars

SpecCoordination == InitCoordination /\ [][Next]_vars

SpecAdditive == InitAdditive /\ [][Next]_vars

SpecEstimators == InitEstimators /\ [][NextEstimators]_vars

SpecLookup == InitLookup /\ [][Next]_vars

SpecOrder == InitOrder /\ [][Next]_vars

(* ======================================================================= *)
(*                      what the files of a batch are                      *)
(* ======================================================================= *)

Loaded(i) == PDBFileHandler(pdb_files[i])

LoadFails(i) == IsExc(Loaded(i))

\* the structure has a core atom of a target element
HasTarget(i) ==
  /\ ~LoadFails(i)
  /\ \E k \in 1..Len(Loaded(i).val.core_atoms) :
        Loaded(i).val.core_atoms[k].element \in cfg.target_elements

\* the structure loads and has no core atom of a target element
Unmatched(i) == ~LoadFails(i) /\ ~HasTarget(i)

\* an exception is raised while the file is processed
WorkerRaises(i) ==
  \/ LoadFails(i)
  \/ /\ HasTarget(i)
     /\ \/ CoordinationRaises(Loaded(i).val, TargetAtoms(Loaded(i).val))
        \/ cfg.volume_method # "ionic_radius"

\* the file is neither unmatched nor failing
Good(i) == HasTarget(i) /\ ~WorkerRaises(i)

Finished(i) == task[i] \in {"done", "collected"}

Logged(i) == \E e \in error_log : e[1] = pdb_files[i]

RecordsOf(i) == {k \in 1..Len(cluster_data) : cluster_data[k].pdb_file = pdb_files[i]}

InNoTargetList(i) ==
  \E k \in 1..Len(no_target_atoms_files) : no_target_atoms_files[k] = pdb_files[i]

\* the number of target atoms among the core atoms
SpecSize(h) ==
  Cardinality({k \in 1..Len(h.core_atoms) : h.core_atoms[k].element \in cfg.target_elements})

\* the charge the table gives an element, 0 for an element it does not list
TableCharge(e) == IF e \in DOMAIN cfg.charges THEN cfg.charges[e][1] ELSE 0

\* what one atom adds to the ionic-sphere volume computed by the code
AtomVolume(a) ==
  LET key == <<a.element, TableCharge(a.element)>>
  IN IF key \in DOMAIN radius_lookup
     THEN IF radius_lookup[key].volume # None THEN radius_lookup[key].volume[1] ELSE 0
     ELSE 0

SpecVolume(h) == SumFn([k \in 1..Len(AllAtoms(h)) |-> AtomVolume(AllAtoms(h)[k])])

AtomsOf(h, e) == {k \in 1..Len(AllAtoms(h)) : AllAtoms(h)[k].element = e}

\* the sum over the elements of (number of atoms) x (tabulated charge)
ExpectedCharge(h) == SumFn([e \in Elements |-> Cardinality(AtomsOf(h, e)) * TableCharge(e)])

\* the record is the one the file's structure alone determines
RecordFits(r, i) ==
  /\ r.pdb_file = pdb_files[i]
  /\ r.cluster_size = SpecSize(Loaded(i).val)
  /\ r.volume = SpecVolume(Loaded(i).val)
  /\ r.charge = ExpectedCharge(Loaded(i).val)

\* the number of volumes held by the size buckets
BucketEntries ==
  SumFn([size \in DOMAIN cluster_size_distribution |-> Len(cluster_size_distribution[size])])

KnownConfiguration ==
  /\ cfg.volume_method \in {"ionic_radius", "radius_of_gyration"}
  /\ shape_type \in {"sphere", "ellipsoid"}

GoodOfSize(size) == {g \in Files : Good(g) /\ SpecSize(Loaded(g).val) = size}

\* the volumes the good files of one size have, each counted copies times
ExpectedBag(size, copies) ==
  LET volumes == {SpecVolume(Loaded(g).val) : g \in GoodOfSize(size)}
  IN [v \in volumes |->
        copies * Cardinality({g \in GoodOfSize(size) : SpecVolume(Loaded(g).val) = v})]

ExpectedSizes == {SpecSize(Loaded(g).val) : g \in {f \in Files : Good(f)}}

ExpectedSum(size) == SumFn([g \in GoodOfSize(size) |-> SpecVolume(Loaded(g).val)])

\* the sizes whose good files have the largest volume together
ExpectedModes ==
  {size \in ExpectedSizes : \A t \in ExpectedSizes : ExpectedSum(size) >= ExpectedSum(t)}

\* an atom of the structure has no radius-lookup entry, or one without a volume
HasMissingGroup(h) ==
  \E k \in 1..Len(AllAtoms(h)) :
     LET key == <<AllAtoms(h)[k].element, TableCharge(AllAtoms(h)[k].element)>>
     IN \/ key \notin DOMAIN radius_lookup
        \/ radius_lookup[key].volume = None

\* the volumes of the records of one size, summed
RecordSum(size) ==
  SumFn([k \in {j \in 1..Len(cluster_data) : cluster_data[j].cluster_size = size} |->
           cluster_data[k].volume])

RecordTotal == SumFn([k \in 1..Len(cluster_data) |-> cluster_data[k].volume])

\* the atoms other than the k-th of the given element within the threshold of
\* the k-th atom
NeighboursWithin(h, k, element, threshold) ==
  {j \in 1..Len(AllAtoms(h)) :
     /\ j # k
     /\ AllAtoms(h)[j].element = element
     /\ threshold >= 0
     /\ LET a == AllAtoms(h)[k].coordinates
            b == AllAtoms(h)[j].coordinates
        IN (a[1] - b[1]) * (a[1] - b[1]) + (a[2] - b[2]) * (a[2] - b[2])
             + (a[3] - b[3]) * (a[3] - b[3]) <= threshold * threshold}

\* the second file holds every atom of the first file twice
SecondIsFirstDoubled ==
  /\ Len(pdb_files) = 2
  /\ ~LoadFails(1) /\ ~LoadFails(2)
  /\ Loaded(2).val.core_atoms = Loaded(1).val.core_atoms \o Loaded(1).val.core_atoms
  /\ Loaded(2).val.shell_atoms = Loaded(1).val.shell_atoms \o Loaded(1).val.shell_atoms

\* the five estimators, by the names a configuration selects them with
EstimatorNames ==
  {"ionic_radius", "radius_of_gyration", "convex_hull", "coherent_scattering",
   "outward_facing_points"}

\* how often the file is in the list of copied files
TimesCopied(i) == Cardinality({k \in 1..Len(copied) : copied[k] = pdb_files[i]})

\* the aggregation has run on the present record collection
AggregatedNow ==
  average_volumes_per_size = Some(AverageVolumes(StatisticsBuckets(cluster_data)))

\* the entry a row of the charge table is to have: the tabulated ionic radius
\* of the row's charge and coordination label, else the covalent radius, else
\* an entry without radius and volume (radii in whole angstroms, volumes in
\* units of (4/3)*pi)
ExpectedEntry(e, charge, coordination) ==
  LET radii == ElementData[e].ionic_radii
      hits == {k \in 1..Len(radii) : /\ radii[k].charge = charge
                                     /\ radii[k].coordination = to_roman(coordination)}
      first == CHOOSE k \in hits : \A j \in hits : k <= j
      covalent == ElementData[e].covalent_radius \div PmPerAngstrom
      entry(r) == [ionic_radius |-> Some(r), volume |-> Some(r * r * r)]
  IN IF hits # {} THEN entry(radii[first].ionic_radius \div PmPerAngstrom)
     ELSE IF covalent # 0 THEN entry(covalent)
     ELSE [ionic_radius |-> None, volume |-> None]

\* the (element, formal charge) groups present in the structure
GroupsOf(h) ==
  {<<AllAtoms(h)[k].element, TableCharge(AllAtoms(h)[k].element)>> : k \in 1..Len(AllAtoms(h))}

\* the sum over the groups of (number of atoms) x (sphere volume of the entry),
\* for a structure all of whose groups have an entry with a volume
GroupVolumeSum(h) ==
  SumFn([key \in GroupsOf(h) |->
           Cardinality(AtomsOf(h, key[1])) * radius_lookup[key].volume[1]])

\* the call has left the thread pool (line 168 onwards) or has ended
PoolLeft == main_pc \in {"copy", "print", "statistics", "plots", "returned", "raised"}

(* ======================================================================= *)
(*                                 claims                                  *)
(* ======================================================================= *)

\* C1: for a batch of at least one file, whatever subset of the files fails or
\* is unmatched (all of them included), analyze_clusters never raises, and when
\* it has returned there is a record for every file that neither failed nor was
\* unmatched and the printed count is the number of files without a record.
C1_BatchCompletes ==
  Len(pdb_files) >= 1 =>
    /\ main_pc # "raised"
    /\ main_pc = "returned" =>
         /\ \A i \in Files : Good(i) => RecordsOf(i) # {}
         /\ reported = Some(Cardinality({i \in Files : ~Good(i)}))

\* C2: an exception raised in the worker (loading, coordination counting,
\* volume estimation) is caught in the worker, logged with the file, and turned
\* into the empty result; no exception is left in the future, so that
\* future.result() does not raise: the call raises, if at all, after line 172.
C2_WorkerCatchesAll ==
  /\ \A i \in Files :
       Finished(i) =>
         /\ outcome[i].raises = None
         /\ WorkerRaises(i) => outcome[i].result[1] = None /\ Logged(i)
  /\ main_pc = "raised" => reported # None /\ \A i \in Files : task[i] = "collected"

\* C2 witness: a call has returned although the coordination counter raised
\* TypeError for one of its files
C2_Witness ==
  /\ main_pc = "returned"
  /\ \E i \in Files : task[i] = "collected" /\ <<pdb_files[i], "TypeError">> \in error_log

\* C3: under every interleaving, a failing task cancels no other task (every
\* task has been collected when the pool is left) and changes no other result:
\* every record of a good file g is the one g's structure alone determines,
\* whatever the other files do.
C3_FailureIsolation ==
  /\ PoolLeft => \A g \in Files : task[g] = "collected"
  /\ \A g \in Files :
       /\ \A k \in RecordsOf(g) : Good(g) /\ RecordFits(cluster_data[k], g)
       /\ Good(g) /\ task[g] = "collected" => RecordsOf(g) # {}

\* C3 witness: a call has returned in which one file failed and another file
\* has its record
C3_Witness ==
  /\ main_pc = "returned"
  /\ \E f, g \in Files :
       /\ WorkerRaises(f) /\ Logged(f)
       /\ Good(g) /\ RecordsOf(g) # {}

\* C4: a file without a core atom of a target element is appended to the
\* unmatched list and yields the empty result without an error; it has no
\* record, and the buckets hold one volume per record, so none for it.
C4_UnmatchedIsNoError ==
  /\ \A i \in Files :
       Unmatched(i) /\ Finished(i) =>
         /\ outcome[i].result[1] = None
         /\ outcome[i].raises = None
         /\ ~Logged(i)
         /\ InNoTargetList(i)
         /\ RecordsOf(i) = {}
  /\ BucketEntries = Len(cluster_data)

\* C4 witness: a call has returned with an unmatched file collected beside a
\* file that has a record
C4_Witness ==
  /\ main_pc = "returned"
  /\ \E i, j \in Files :
       /\ Unmatched(i) /\ task[i] = "collected" /\ InNoTargetList(i)
       /\ RecordsOf(j) # {}

\* C5: with an unrecognized volume method or shape type no per-file task is
\* ever submitted (the error is raised before the fan-out).
C5_FailFast == ~KnownConfiguration => \A i \in Files : task[i] = "new"

C7_BucketsFreshPerRun ==
  main_pc = "returned" =>
    \A size \in DOMAIN cluster_size_distribution :
       SeqToBag(cluster_size_distribution[size]) = ExpectedBag(size, 1)

\* C8: with the ionic-radius method, a file one of whose atoms has no
\* radius-lookup entry, or an entry without a volume, gets no volume: the
\* estimator fails and the worker yields the empty result.
C8_IonicFailsOnMissingGroup ==
  \A i \in Files :
     ( /\ Finished(i)
       /\ cfg.volume_method = "ionic_radius"
       /\ HasTarget(i)
       /\ HasMissingGroup(Loaded(i).val) )
     => outcome[i].result[1] = None

\* C9: the charge of every record is the sum over the elements of the number
\* of core and shell atoms of the element times the charge the table gives it,
\* an element absent from the table counting 0; no error is logged for it.
C9_ChargeIsTableSum ==
  \A i \in Files :
     /\ Finished(i) /\ HasTarget(i) =>
          /\ outcome[i].result[1] # None
          /\ outcome[i].result[5] = ExpectedCharge(Loaded(i).val)
     /\ \A k \in RecordsOf(i) : cluster_data[k].charge = ExpectedCharge(Loaded(i).val)

\* C9 witness: a record of charge 1 for a cluster with a charged core atom, a
\* charged shell atom and a shell atom of an element the table does not list
C9_Witness ==
  /\ Len(cluster_data) >= 1
  /\ cluster_data[1].charge = 1
  /\ LET h == Loaded(1).val
     IN /\ Len(h.shell_atoms) = 2
        /\ \E k \in 1..2 : h.shell_atoms[k].element \notin DOMAIN cfg.charges
        /\ \E k \in 1..2 : TableCharge(h.shell_atoms[k].element) < 0

\* C10: when a call has returned, the percentage computed for each size is
\* 100 x (mean volume of the size's records x their number) / (the same product
\* summed over all sizes), and the mode is a size whose share is the largest.
\* (mean x number is the sum of the records' volumes; the quotient is kept as
\* numerator and denominator.)
C10_VolumeFractionAndMode ==
  main_pc = "returned" =>
    /\ \A size \in DOMAIN cluster_size_distribution :
         LET p == VolumePercentage(cluster_size_distribution, size)
         IN /\ p[2] = RecordTotal
            /\ p[1] = PercentFactor * RecordSum(size)
    /\ mode_size # None
    /\ mode_size[1] \in DOMAIN cluster_size_distribution
    /\ \A size \in DOMAIN cluster_size_distribution :
         RecordSum(mode_size[1]) * RecordTotal >= RecordSum(size) * RecordTotal

\* C10 witness: a call has returned with two buckets of different shares whose
\* mode is the smaller size, although the larger size has as many records
C10_Witness ==
  /\ main_pc = "returned"
  /\ DOMAIN cluster_size_distribution = {1, 2}
  /\ mode_size = Some(1)
  /\ Len(cluster_size_distribution[1]) = Len(cluster_size_distribution[2])
  /\ RecordSum(1) > RecordSum(2) /\ RecordSum(2) > 0

\* C11: for a cluster with one target atom (the first core atom), the mean
\* count reported for a pair with a configured threshold is the number of the
\* cluster's other atoms of the neighbour element whose distance to the target
\* atom is at most the threshold.
C11_MeanIsNeighbourCount ==
  \A i \in Files :
     ( /\ Finished(i)
       /\ outcome[i].result[1] # None
       /\ Len(Loaded(i).val.core_atoms) = 1 )
     => \A pair \in DOMAIN cfg.distance_thresholds :
          pair \in DOMAIN outcome[i].result[3] =>
            outcome[i].result[3][pair][1] =
              << Cardinality(NeighboursWithin(Loaded(i).val, 1, pair[2],
                                              cfg.distance_thresholds[pair])), 1 >>

\* C12: when the second file holds every atom of the first file twice, the
\* ionic-sphere volume computed for the second file is exactly twice the volume
\* computed for the first, in the workers' results and in the records.
C12_IonicVolumeAdditive ==
  SecondIsFirstDoubled =>
    /\ (Finished(1) /\ Finished(2)) =>
         /\ outcome[1].result[1] # None <=> outcome[2].result[1] # None
         /\ outcome[1].result[1] # None =>
              outcome[2].result[4] = 2 * outcome[1].result[4]
    /\ \A j \in RecordsOf(1), k \in RecordsOf(2) :
         cluster_data[k].volume = 2 * cluster_data[j].volume

\* C12 witness: both records are there, the first cluster has atoms of two
\* groups with different sphere volumes and a positive volume
C12_Witness ==
  /\ SecondIsFirstDoubled
  /\ RecordsOf(1) # {} /\ RecordsOf(2) # {}
  /\ \A j \in RecordsOf(1) : cluster_data[j].volume > 0
  /\ \E a, b \in 1..Len(AllAtoms(Loaded(1).val)) :
        /\ AtomVolume(AllAtoms(Loaded(1).val)[a]) > 0
        /\ AtomVolume(AllAtoms(Loaded(1).val)[b]) > AtomVolume(AllAtoms(Loaded(1).val)[a])

\* C13: called on a cluster whose core and shell hold fewer than four atoms
\* together, the convex-hull estimator returns the volume 0, prints a
\* diagnostic and raises nothing.
C13_SmallHullIsZero ==
  (estimate # None /\ estimate.method = "convex_hull") =>
    LET h == PDBFileHandler(estimate.pdb_file).val
    IN Len(h.core_atoms) + Len(h.shell_atoms) < 4 =>
         /\ ~IsExc(estimate.result)
         /\ "number" \in DOMAIN estimate.result.val
         /\ estimate.result.val.number = 0
         /\ estimate.printed # None

\* C13 witness: the estimator has returned 0 for a cluster of three atoms at
\* three different places
C13_Witness ==
  /\ estimate # None /\ estimate.method = "convex_hull"
  /\ LET atoms == AllAtoms(PDBFileHandler(estimate.pdb_file).val)
     IN /\ Len(atoms) = 3
        /\ \A a, b \in 1..3 : a # b => atoms[a].coordinates # atoms[b].coordinates
  /\ estimate.result = Val(Number(0))

\* C14: whichever of the five estimators the configuration selects, a file
\* with target atoms whose coordination counting succeeds gets a volume from
\* it: its task ends with a record, not with the empty result; and under the
\* ionic-sphere method the volume of a record is the ionic-sphere volume.
C14_EveryEstimatorSelectable ==
  \A i \in Files :
     /\ ( /\ Finished(i)
          /\ cfg.volume_method \in EstimatorNames
          /\ HasTarget(i)
          /\ ~CoordinationRaises(Loaded(i).val, TargetAtoms(Loaded(i).val)) )
        => outcome[i].result[1] # None
     /\ cfg.volume_method = "ionic_radius" =>
          \A k \in RecordsOf(i) : cluster_data[k].volume = SpecVolume(Loaded(i).val)

\* C15: called on atoms one of which has an element outside the fixed
\* oxidation-state table, the outward-facing-point estimator raises an error
\* and returns no volume.
C15_OutwardFailsOnUnknownElement ==
  (estimate # None /\ estimate.method = "outward_facing_points") =>
    LET atoms == AllAtoms(PDBFileHandler(estimate.pdb_file).val)
    IN (\E k \in 1..Len(atoms) : atoms[k].element \notin DOMAIN oxidation_states)
         => /\ IsExc(estimate.result)
            /\ estimate.result.exc = "ValueError"

\* C15 witness: the estimator has raised for two atoms at different places, the
\* first of an element of the table and the second of an element outside it
C15_Witness ==
  /\ estimate # None /\ estimate.method = "outward_facing_points"
  /\ LET atoms == AllAtoms(PDBFileHandler(estimate.pdb_file).val)
     IN /\ Len(atoms) = 2
        /\ atoms[1].element \in DOMAIN oxidation_states
        /\ atoms[2].element \notin DOMAIN oxidation_states
        /\ atoms[1].coordinates # atoms[2].coordinates
  /\ IsExc(estimate.result)

\* C16: no object of the analyzer is written by two tasks of a run: in
\* particular no two tasks have both appended to the unmatched-file list, and
\* the radius-lookup cache is the one the constructor built.
C16_NoObjectWrittenByTwoTasks ==
  /\ \A i, j \in Files :
       (i # j /\ Finished(i) /\ Finished(j)) =>
         ~(outcome[i].no_target /\ InNoTargetList(i) /\ outcome[j].no_target /\ InNoTargetList(j))
  /\ radius_lookup = IF cfg.volume_method = "ionic_radius"
                     THEN build_ionic_radius_lookup(cfg.charges) ELSE << >>

\* C17: while a submitted task of the run is still uncollected, the size
\* buckets hold no volume of the run: they hold what the aggregations of the
\* earlier runs left, one volume per good file and earlier run.
C17_BucketsWrittenAfterCollection ==
  ( /\ main_pc \in {"submit", "collect"}
    /\ \E i \in Files : task[i] # "collected" )
  => BucketEntries = (runs - 1) * Cardinality({g \in Files : Good(g)})

\* C18: when the copy of the unmatched files or the aggregation of a run is
\* about to start or has started, every file has been submitted, every task has
\* finished and its result has been collected; the aggregation has not run
\* before the copy, and the copy of the run is done when the aggregation starts
\* (each run copies the whole unmatched list, which holds an unmatched file once
\* per run made).
C18_CopyThenStatisticsAfterPool ==
  /\ main_pc \in {"copy", "print", "statistics", "plots"} =>
       /\ submitted = Len(pdb_files)
       /\ \A i \in Files : task[i] = "collected" /\ outcome[i] # None
  /\ (main_pc \in {"copy", "print", "statistics"} /\ \E g \in Files : Good(g)) =>
       ~AggregatedNow
  /\ cfg.copy_no_target_files =>
       \A i \in Files : Unmatched(i) =>
          /\ main_pc = "copy" => 2 * TimesCopied(i) = (runs - 1) * runs
          /\ main_pc \in {"print", "statistics", "plots"} =>
               2 * TimesCopied(i) = runs * (runs + 1)

\* C18 witness: the aggregation of the first run is about to start and has not
\* run yet; of the two files the good one has its record and the unmatched one
\* was copied
C18_Witness ==
  /\ main_pc = "statistics" /\ runs = 1
  /\ Len(pdb_files) = 2
  /\ Good(2) /\ Unmatched(1)
  /\ cfg.copy_no_target_files /\ TimesCopied(1) = 1
  /\ ~AggregatedNow

\* C19: under the ionic-radius method the radius-lookup cache is, in every
\* state from construction on (before, during and after every batch run and
\* aggregation), the table build_ionic_radius_lookup made of the charge table:
\* nothing adds, removes or changes an entry.
C19_LookupBuiltOnceReadOnly ==
  cfg.volume_method = "ionic_radius" =>
    /\ radius_lookup = build_ionic_radius_lookup(cfg.charges)
    /\ \A e \in DOMAIN cfg.charges :
         to_roman(cfg.charges[e][2]) # "" => <<e, cfg.charges[e][1]>> \in DOMAIN radius_lookup

\* C19 witness: a second run has returned after estimating the volume of a
\* cluster one of whose atoms has no entry in the cache
C19_Witness ==
  /\ cfg.volume_method = "ionic_radius"
  /\ main_pc = "returned" /\ runs = 2
  /\ DOMAIN radius_lookup # {}
  /\ \E i \in Files : RecordsOf(i) # {} /\ HasMissingGroup(Loaded(i).val)

\* C20: under the ionic-radius method every row (element, charge, reference
\* coordination) of the charge table has an entry under the key (element,
\* charge), and the entry is the matching ionic radius, else the covalent
\* radius, else the entry without radius and volume.
C20_OneEntryPerRow ==
  cfg.volume_method = "ionic_radius" =>
    \A e \in DOMAIN cfg.charges :
       /\ <<e, cfg.charges[e][1]>> \in DOMAIN radius_lookup
       /\ radius_lookup[<<e, cfg.charges[e][1]>>] =
            ExpectedEntry(e, cfg.charges[e][1], cfg.charges[e][2])

\* C21: when every (element, charge) group of a cluster has a radius-lookup
\* entry with a volume, the ionic-sphere volume of the worker's result and of
\* the record is the sum over the groups of (number of core and shell atoms of
\* the group) x (sphere volume of the entry), and it is not negative.
C21_IonicVolumeIsGroupSum ==
  cfg.volume_method = "ionic_radius" =>
    \A i \in Files :
       (HasTarget(i) /\ ~HasMissingGroup(Loaded(i).val)) =>
          /\ Finished(i) =>
               /\ outcome[i].result[1] # None
               /\ outcome[i].result[4] = GroupVolumeSum(Loaded(i).val)
               /\ outcome[i].result[4] >= 0
          /\ \A k \in RecordsOf(i) :
               cluster_data[k].volume = GroupVolumeSum(Loaded(i).val)

\* C21 witness: a record of a cluster with two groups, two atoms in one and one
\* atom in the other, with different sphere volumes, one group in the shell
C21_Witness ==
  /\ Len(cluster_data) >= 1
  /\ LET h == Loaded(1).val
     IN /\ ~HasMissingGroup(h)
        /\ Cardinality(GroupsOf(h)) = 2
        /\ Len(h.core_atoms) = 2 /\ Len(h.shell_atoms) = 1
        /\ h.core_atoms[1].element = h.core_atoms[2].element
        /\ AtomVolume(h.shell_atoms[1]) > AtomVolume(h.core_atoms[1])
        /\ cluster_data[1].volume = 2 * AtomVolume(h.core_atoms[1]) + AtomVolume(h.shell_atoms[1])

\* C22: a pair (target element, neighbour element) without a threshold under
\* exactly that key counts no atom, whatever the distances and whether or not
\* the reverse-ordered key has a threshold, and raises no error: the total of
\* the counts reported for the pair is 0.
C22_ThresholdsDirectional ==
  \A i \in Files :
     ( /\ Finished(i)
       /\ HasTarget(i)
       /\ cfg.volume_method = "ionic_radius"
       /\ ~CoordinationRaises(Loaded(i).val, TargetAtoms(Loaded(i).val)) )
     => /\ outcome[i].result[1] # None
        /\ \A pair \in DOMAIN outcome[i].result[3] :
             pair \notin DOMAIN cfg.distance_thresholds =>
               outcome[i].result[3][pair][1][1] = 0

\* C22 witness: a threshold is configured for (I, Pb) alone, the cluster has an
\* I atom within that distance of the Pb target atom, and the count reported
\* for (Pb, I) is 0
C22_Witness ==
  /\ Len(pdb_files) = 1 /\ Finished(1)
  /\ DOMAIN cfg.distance_thresholds = {<<"I", "Pb">>}
  /\ outcome[1].result[1] # None
  /\ NeighboursWithin(Loaded(1).val, 1, "I", cfg.distance_thresholds[<<"I", "Pb">>]) # {}
  /\ outcome[1].result[3][<<"Pb", "I">>][1] = <<0, 1>>

\* C23: a target atom is never counted as its own neighbour: for a cluster
\* with one target atom of element E, where E is also a neighbour element and
\* (E, E) has a threshold, the count reported for (E, E) is at most the number
\* of the cluster's atoms of element E other than the target atom.
C23_NoSelfNeighbour ==
  \A i \in Files :
     ( /\ Finished(i)
       /\ outcome[i].result[1] # None
       /\ Len(TargetAtoms(Loaded(i).val)) = 1 )
     => LET target == TargetAtoms(Loaded(i).val)[1]
            k == CHOOSE n \in 1..Len(Loaded(i).val.core_atoms) :
                   Loaded(i).val.core_atoms[n].element \in cfg.target_elements
            same == << target.element, target.element >>
            others == {j \in 1..Len(AllAtoms(Loaded(i).val)) :
                         /\ j # k
                         /\ AllAtoms(Loaded(i).val)[j].element = target.element}
        IN ( /\ same \in DOMAIN cfg.distance_thresholds
             /\ same \in DOMAIN outcome[i].result[3] )
           => outcome[i].result[3][same][1][1] <= Cardinality(others)

\* the statistics hold exactly one entry per pair (element of a target atom of
\* the cluster, configured neighbour element); the mean of an entry is taken
\* over the target atoms of that element, and is 0 for a pair without threshold
FullStats(stats, h) ==
  LET targets == TargetAtoms(h)
      present == {targets[k].element : k \in 1..Len(targets)}
  IN /\ DOMAIN stats = present \X cfg.neighbor_elements
     /\ \A pair \in DOMAIN stats :
          /\ Len(stats[pair]) = 2
          /\ stats[pair][1][2] =
               Cardinality({k \in 1..Len(targets) : targets[k].element = pair[1]})
          /\ pair \notin DOMAIN cfg.distance_thresholds => stats[pair][1][1] = 0

\* C24: for every cluster with at least one target atom that is processed, the
\* coordination statistics of the worker's result and of the record hold an
\* entry (mean, std) for every pair of an element of a target atom present and
\* a configured neighbour element, the pairs that count no atom and the pairs
\* without threshold included (mean 0).
C24_EntryForEveryPair ==
  \A i \in Files :
     /\ (Finished(i) /\ outcome[i].result[1] # None) =>
           FullStats(outcome[i].result[3], Loaded(i).val)
     /\ \A k \in RecordsOf(i) :
           FullStats(cluster_data[k].coordination_stats, Loaded(i).val)

\* C24 witness: the record of a cluster with two Pb target atoms and one I atom
\* holds the entry of (Pb, I) with mean 1 and the entry of (Pb, O), a pair
\* without threshold and without atom, with mean 0
C24_Witness ==
  \E i \in Files : \E k \in RecordsOf(i) :
     /\ Len(TargetAtoms(Loaded(i).val)) = 2
     /\ <<"Pb", "O">> \notin DOMAIN cfg.distance_thresholds
     /\ DOMAIN cluster_data[k].coordination_stats = {<<"Pb", "I">>, <<"Pb", "O">>}
     /\ cluster_data[k].coordination_stats[<<"Pb", "I">>][1] = <<2, 2>>
     /\ cluster_data[k].coordination_stats[<<"Pb", "O">>][1] = <<0, 2>>

\* C25: from the start of a batch run on, before any task is submitted and
\* until the run is over, the pool size is the CPU count minus one, and 1 when
\* that is less than 1 or when the CPU count cannot be detected (cpu_count 0);
\* it never changes, and no more tasks run at the same time than this size.
C25_PoolSizeFixed ==
  /\ runs >= 1 =>
       /\ num_threads = (IF cpu_count >= 2 THEN cpu_count - 1 ELSE 1)
       /\ num_threads >= 1
  /\ runs = 0 => submitted = 0 /\ Running = {}
  /\ Cardinality(Running) <= num_threads

\* C25 witness: with three cores the pool has size two and two tasks run at
\* the same time
C25_Witness ==
  /\ cpu_count = 3
  /\ num_threads = 2
  /\ Cardinality(Running) = 2

\* the number of entries of the unmatched-file list that name file i
UnmatchedEntries(i) ==
  Cardinality({k \in 1..Len(no_target_atoms_files) : no_target_atoms_files[k] = pdb_files[i]})

\* the number of true statements among three
CountTrue(a, b, c) ==
  (IF a THEN 1 ELSE 0) + (IF b THEN 1 ELSE 0) + (IF c THEN 1 ELSE 0)

\* C26: in a batch run no more tasks are submitted than there are files, and
\* no file ever has both a record and an entry in the unmatched list; when the
\* pool of the run is left, every file was submitted and collected once and
\* ended in exactly one of three outcomes: a record added (one per run), an
\* entry in the unmatched list (one per run), or an error line and neither;
\* the records added by the run and the empty results counted are together as
\* many as the files.
C26_OneOutcomePerFile ==
  /\ submitted <= Len(pdb_files)
  /\ \A i \in Files : ~(RecordsOf(i) # {} /\ InNoTargetList(i))
  /\ PoolLeft =>
       /\ submitted = Len(pdb_files)
       /\ Len(all_cluster_sizes) + no_target_atoms_count = Len(pdb_files)
       /\ \A i \in Files :
            /\ task[i] = "collected"
            /\ CountTrue(outcome[i].result[1] # None, outcome[i].no_target,
                         outcome[i].error # None) = 1
            /\ Cardinality(RecordsOf(i)) = (IF outcome[i].result[1] # None THEN runs ELSE 0)
            /\ UnmatchedEntries(i) = (IF outcome[i].no_target THEN runs ELSE 0)
            /\ Logged(i) <=> outcome[i].error # None

\* C26 witness: a run of two files has returned, one file with a record, the
\* other failed with an error line, without record and without unmatched entry
C26_Witness ==
  /\ main_pc = "returned" /\ Len(pdb_files) = 2
  /\ Len(all_cluster_sizes) = 1 /\ no_target_atoms_count = 1
  /\ \E i, j \in Files :
       /\ RecordsOf(i) # {}
       /\ Logged(j) /\ RecordsOf(j) = {} /\ ~InNoTargetList(j)

\* C27: the number a batch run prints as 'Number of files without target atoms'
\* is the number of files of the run whose structure has no target atom, which
\* is the number of entries the workers of the run appended to the unmatched
\* list.
C27_ReportedCountIsUnmatched ==
  reported # None =>
    /\ reported[1] = Cardinality({i \in Files : Unmatched(i)})
    /\ reported[1] = Cardinality({i \in Files : outcome[i].no_target})

\* the records of one cluster size
RecordsOfSize(size) == {k \in 1..Len(cluster_data) : cluster_data[k].cluster_size = size}

\* C28: in every state, after any sequence of batch runs and calls of
\* generate_statistics, the sizes with a bucket are the cluster sizes of the
\* records; the bucket of a size holds every volume as many times as the
\* records of that size do; every record has a cluster size of at least 1 and
\* no bucket is empty.
C28_BucketsAgreeWithRecords ==
  /\ DOMAIN cluster_size_distribution =
       {cluster_data[k].cluster_size : k \in 1..Len(cluster_data)}
  /\ \A k \in 1..Len(cluster_data) : cluster_data[k].cluster_size >= 1
  /\ \A size \in DOMAIN cluster_size_distribution :
       LET bucket == cluster_size_distribution[size]
       IN /\ bucket # << >>
          /\ Len(bucket) = Cardinality(RecordsOfSize(size))
          /\ \A n \in 1..Len(bucket) :
               Cardinality({m \in 1..Len(bucket) : bucket[m] = bucket[n]}) =
               Cardinality({k \in RecordsOfSize(size) : cluster_data[k].volume = bucket[n]})

\* C28 witness: two runs have returned and left four records, two of size 1
\* and two of size 2, in two buckets of two volumes each
C28_Witness ==
  /\ runs = 2 /\ main_pc = "returned"
  /\ Len(cluster_data) = 4
  /\ DOMAIN cluster_size_distribution = {1, 2}
  /\ Len(cluster_size_distribution[1]) = 2 /\ Len(cluster_size_distribution[2]) = 2

====
